---- MODULE Spec2Model ----
(***************************************************************************)
(* Audio chunking and chunked transcription of open-podcast-processor:     *)
(* utils/audio_chunking.py (chunk_audio_file) and utils/transcriber_groq.py *)
(* (AudioTranscriber.transcribe_audio_chunk, transcribe_audio,              *)
(* transcribe_episode) with the episode row of utils/postgres_db.py.        *)
(*                                                                         *)
(* One run of the model is one call of one public operation on one audio   *)
(* file: Spec calls the audio operations directly, EpisodeSpec calls       *)
(* transcribe_episode on an episode row whose audio is that file.  Times   *)
(* are whole seconds, sizes whole megabytes.  An optional value (Python    *)
(* None) is the empty sequence, a present one a 1-tuple; a dict is a       *)
(* function whose DOMAIN holds the keys that are present; a string that    *)
(* the code edits is a sequence of one-character strings.                  *)
(***************************************************************************)
EXTENDS Integers, Sequences, FiniteSets, TLC

VARIABLES
    ffmpeg_installed,   \* check_ffmpeg_installed()[0]
    audio,              \* the audio file: [exists, size_mb, probe]
    caller,             \* the public operation that was called
    pc,                 \* position of the call
    arg_chunk_duration, \* chunk_audio_file's chunk_duration argument (None = <<>>)
    overlap_seconds,    \* chunk_audio_file's overlap_seconds argument
    chunk_duration,     \* chunk_audio_file: resolved chunk duration
    duration,           \* chunk_audio_file: duration (None = <<>>)
    start_time,         \* chunk_audio_file: loop variable
    end_time,           \* chunk_audio_file: loop variable
    chunk_index,        \* chunk_audio_file: index of the next chunk file
    chunks,             \* chunk_audio_file: list of (path, start, end)
    extractor_invoked,  \* ffmpeg was run to extract a window
    extract_failed,     \* some extraction exited non-zero (the warning was printed)
    tc_path,            \* transcribe_audio_chunk: audio_path argument
    tc_offset,          \* transcribe_audio_chunk: offset_seconds argument
    tc_calls,           \* the calls of transcribe_audio_chunk made so far
    response,           \* last answer of the service (<<>> = none / exception)
    loop_idx,           \* transcribe_audio: index of the chunk being transcribed
    all_segments,       \* transcribe_audio: accumulated segments
    all_text_parts,     \* transcribe_audio: accumulated chunk texts
    language,           \* transcribe_audio: language seen so far
    chunk_failed,       \* transcribe_audio: some chunk's transcription returned None
    result,             \* what transcribe_audio / transcribe_audio_chunk returned
    db_episode,         \* the episode's row in the podcasts table (None = no row)
    episode,            \* transcribe_episode: the row get_episode_by_id returned
    te,                 \* transcribe_episode: "idle", "running", or how it ended
    disk,               \* the chunk files on disk: path -> what was written there
    runs,               \* concurrent transcribe_audio calls: invocation -> its state
    podcasts,           \* the podcasts table: episode id -> row (None = no row)
    files,              \* the audio file at each episode's path
    batch               \* process_all_episodes: position, work list, counters, calls

vars == <<ffmpeg_installed, audio, caller, pc, arg_chunk_duration, overlap_seconds,
          chunk_duration, duration, start_time, end_time, chunk_index, chunks,
          extractor_invoked, extract_failed, tc_path, tc_offset, tc_calls, response,
          loop_idx, all_segments, all_text_parts, language, chunk_failed, result,
          db_episode, episode, te, disk, runs, podcasts, files, batch>>

envVars == <<ffmpeg_installed, audio>>

tableVars == <<podcasts, files, batch>>

chunkVars == <<chunk_duration, duration, start_time, end_time, chunk_index, chunks,
               extractor_invoked, extract_failed>>

loopVars == <<loop_idx, all_segments, all_text_parts, language, chunk_failed>>

episodeVars == <<db_episode, episode, te>>

\* the variables of the single call, which the concurrent calls and the table steps leave alone
soloVars == <<episodeVars, caller, pc, arg_chunk_duration, overlap_seconds, chunkVars,
              tc_path, tc_offset, tc_calls, response, loopVars, result>>

----------------------------------------------------------------------------
(* Program constants *)

MAX_CHUNK_SIZE_MB == 80
MAX_CHUNK_DURATION_SECONDS_SMALL == 3600
MAX_CHUNK_DURATION_SECONDS_LARGE == 1800
SMALL_FILE_MB == 50
DEFAULT_OVERLAP_SECONDS == 5
GROQ_MAX_FILE_MB == 100
SECONDS_PER_MB == 60

(* Bounds of the model *)

MaxChunks == 6      \* longest chunk list the model records
MaxSegments == 2    \* most segments in one answer of the service

----------------------------------------------------------------------------
(* Values *)

None == <<>>
Some(x) == <<x>>
IsNone(o) == o = <<>>
Truthy(o) == o # <<>> /\ o[1] # 0        \* Python: `if duration:`
OrElse(o, d) == IF Truthy(o) THEN o[1] ELSE d   \* Python: `duration or 0.0`

Min(a, b) == IF a <= b THEN a ELSE b

\* dict.get(key, default)
Get(d, key, default) == IF key \in DOMAIN d THEN d[key] ELSE default

Restrict(d, keys) == [k \in keys |-> d[k]]

ORIGINAL == <<"original">>
\* the decimal digits of n
RECURSIVE Decimal(_)
Decimal(n) == IF n < 10 THEN <<n>> ELSE Append(Decimal(n \div 10), n % 10)

\* format(n, "04d"): zero-padded to at least four digits
RECURSIVE ZeroPad4(_)
ZeroPad4(ds) == IF Len(ds) >= 4 THEN ds ELSE ZeroPad4(<<0>> \o ds)

\* mutant: the chunk file name does not carry the index
ChunkPath_Unindexed(i) == <<"chunk", ZeroPad4(Decimal(0))>>

\* temp_dir / f"chunk_{chunk_index:04d}.mp3", temp_dir being fixed by the
\* source file's directory and the slug of its stem
ChunkPath(i) == <<"chunk", ZeroPad4(Decimal(i))>>

\* the chunk directory holds no file
NoFiles == [p \in {} |-> None]

\* what ffmpeg left at a path: the window cut, and whether it is whole
FileContent(by, start, end, whole) ==
    [by |-> by, start |-> start, end |-> end, whole |-> whole]

\* ffmpeg -y ... chunk_path: the file at the path is (over)written
WriteFile(d, path, content) ==
    [p \in DOMAIN d \cup {path} |-> IF p = path THEN content ELSE d[p]]

\* mutant: the chunk files are unlinked
CleanupChunks_Unlinks(d, cs) ==
    [p \in DOMAIN d \ {cs[i].path : i \in 1..Len(cs)} |-> d[p]]

\* cleanup_chunks(chunks): cleanup is disabled, the files are kept
CleanupChunks(d, cs) == d

\* text.strip(), on a sequence of characters
RECURSIVE LStrip(_)
LStrip(s) == IF s # <<>> /\ Head(s) = " " THEN LStrip(Tail(s)) ELSE s

RECURSIVE RStrip(_)
RStrip(s) == IF s # <<>> /\ s[Len(s)] = " " THEN RStrip(SubSeq(s, 1, Len(s) - 1)) ELSE s

Strip(s) == RStrip(LStrip(s))

----------------------------------------------------------------------------
(* Inputs: the files, arguments and service answers the model draws from *)

FileSizes == {15, 79, 80, 95, 101}

ProbeResults == {None, Some(0), Some(1800), Some(6600), Some(10800)}

Files == {[exists |-> FALSE, size_mb |-> 0, probe |-> None]}
           \cup [exists : {TRUE}, size_mb : FileSizes, probe : ProbeResults]

ChunkDurationArgs == {None, Some(3600)}

OverlapArgs == {0, DEFAULT_OVERLAP_SECONDS}

OffsetArgs == {0, 300, 1795}

\* segments as the service reports them (chunk-relative times); a key may be absent
SegmentValues ==
    { [start |-> 0, end |-> 2, text |-> <<" ", "a">>],
      [start |-> 2, end |-> 3, text |-> <<"b">>],
      [end |-> 1, text |-> <<"a">>],
      [start |-> 1] }

SegmentLists == UNION {[1..n -> SegmentValues] : n \in 0..MaxSegments}

Texts == {<<>>, <<"h", "i">>}

Languages == {"", "de"}

\* the verbose_json answers; any of the three keys may be absent
Responses ==
    { Restrict(r, keys) :
        r \in [segments : SegmentLists, text : Texts, language : Languages],
        keys \in SUBSET {"segments", "text", "language"} }

\* sizes a chunk file cut out of the original may have
ChunkFileSizes == {1, 101}

----------------------------------------------------------------------------
(* utils/audio_chunking.py *)

\* mutant: the capability check is left out
FfmpegMissing_Unchecked == FALSE

\* if not check_ffmpeg_installed()[0]
FfmpegMissing == ~ffmpeg_installed

GetAudioSizeMb(a) == IF ~a.exists THEN 0 ELSE a.size_mb

GetAudioDuration(a) == IF ~ffmpeg_installed \/ ~a.exists THEN None ELSE a.probe

Window(path, start, end) == [path |-> path, start |-> start, end |-> end]

\* return [(audio_path, 0.0, duration or 0.0)]
SingleWindow(d) == <<Window(ORIGINAL, 0, OrElse(d, 0))>>

\* mutant: the 50 MB tier boundary used as the chunking threshold
NeedsChunking_SmallTier(size) == ~(size < SMALL_FILE_MB)

NeedsChunking(size) == ~(size < MAX_CHUNK_SIZE_MB)

\* mutant: the tier boundary is taken at the service's 100 MB limit
ResolveChunkDuration_TierAtLimit(arg, size) ==
    IF IsNone(arg)
    THEN IF size < GROQ_MAX_FILE_MB
         THEN MAX_CHUNK_DURATION_SECONDS_SMALL
         ELSE MAX_CHUNK_DURATION_SECONDS_LARGE
    ELSE arg[1]

ResolveChunkDuration(arg, size) ==
    IF IsNone(arg)
    THEN IF size < SMALL_FILE_MB
         THEN MAX_CHUNK_DURATION_SECONDS_SMALL
         ELSE MAX_CHUNK_DURATION_SECONDS_LARGE
    ELSE arg[1]

\* mutant: an unknown duration is taken as 0, as for a small file
EstimateDuration_NoFallback(d, size) == OrElse(d, 0)

EstimateDuration(d, size) == IF IsNone(d) THEN size * SECONDS_PER_MB ELSE d[1]

\* mutant: the window's end is not clamped to the duration
WindowEnd_Unclamped(start, cd, dur) == start + cd

WindowEnd(start, cd, dur) == Min(start + cd, dur)

NextStart(end, overlap) == end - overlap

\* mutant: the loop runs only while a whole window still fits
LoopContinues_FullWindowsOnly(start, dur) == start + chunk_duration <= dur

LoopContinues(start, dur) == start < dur

----------------------------------------------------------------------------
(* utils/transcriber_groq.py: transcribe_audio_chunk *)

DEFAULT_LANGUAGE == "en"

\* mutant: the start of a segment is left chunk-relative
ShiftSegment_StartUnshifted(segment, offset) ==
    [start      |-> Get(segment, "start", 0),
     end        |-> Get(segment, "end", 0) + offset,
     text       |-> Strip(Get(segment, "text", <<>>)),
     speaker    |-> None,
     confidence |-> 1]

\* mutant: the end of a segment is left chunk-relative
ShiftSegment_EndUnshifted(segment, offset) ==
    [start      |-> Get(segment, "start", 0) + offset,
     end        |-> Get(segment, "end", 0),
     text       |-> Strip(Get(segment, "text", <<>>)),
     speaker    |-> None,
     confidence |-> 1]

\* one service segment, shifted by the chunk's offset
ShiftSegment(segment, offset) ==
    [start      |-> Get(segment, "start", 0) + offset,
     end        |-> Get(segment, "end", 0) + offset,
     text       |-> Strip(Get(segment, "text", <<>>)),
     speaker    |-> None,
     confidence |-> 1]

\* the segment made up when the answer has no segments
FallbackSegment(r, offset) ==
    [start      |-> offset,
     end        |-> offset,
     text       |-> Get(r, "text", <<>>),
     speaker    |-> None,
     confidence |-> 1]

HasSegments(r) == "segments" \in DOMAIN r /\ r["segments"] # <<>>

\* mutant: no segment is made up for an answer without segments
ConvertSegments_NoFallback(r, offset) ==
    IF HasSegments(r)
    THEN [i \in 1..Len(r["segments"]) |-> ShiftSegment(r["segments"][i], offset)]
    ELSE <<>>

ConvertSegments(r, offset) ==
    IF HasSegments(r)
    THEN [i \in 1..Len(r["segments"]) |-> ShiftSegment(r["segments"][i], offset)]
    ELSE <<FallbackSegment(r, offset)>>

\* the dict transcribe_audio_chunk returns for the answer r
ChunkResult(r, offset) ==
    [segments |-> ConvertSegments(r, offset),
     language |-> Get(r, "language", DEFAULT_LANGUAGE),
     text     |-> Get(r, "text", <<>>),
     provider |-> "groq"]

\* mutant: the size is only warned about, never refused
TooLarge_WarnOnly(size) == FALSE

TooLarge(size) == size > GROQ_MAX_FILE_MB

\* space-joined chunk texts: " ".join(all_text_parts)
RECURSIVE JoinWithSpace(_)
JoinWithSpace(parts) ==
    IF parts = <<>> THEN <<>>
    ELSE IF Len(parts) = 1 THEN parts[1]
    ELSE parts[1] \o <<" ">> \o JoinWithSpace(Tail(parts))

\* the dict transcribe_audio returns after the chunk loop
MergedResult(segments, lang, parts, cs) ==
    [segments |-> segments,
     language |-> lang,
     text     |-> JoinWithSpace(parts),
     provider |-> "groq",
     chunked  |-> Len(cs) > 1]

\* mutant: an empty transcript instead of None
NoChunksResult_EmptyTranscript == Some(MergedResult(<<>>, DEFAULT_LANGUAGE, <<>>, <<>>))

\* if not chunks: return None
NoChunksResult == None

\* if not all_segments: return None; else the merged dict
MergeOrFail(segments, lang, parts, cs) ==
    IF segments = <<>> THEN None ELSE Some(MergedResult(segments, lang, parts, cs))

IsOriginalOnly(cs) == Len(cs) = 1 /\ cs[1].path = ORIGINAL

----------------------------------------------------------------------------
(* State *)

\* the invocations that may run at the same time; a run on its own is "A"
\* process_all_episodes before it is called
IdleBatch ==
    [pc      |-> "idle",
     queue   |-> <<>>,
     started |-> <<>>,
     results |-> [transcribed |-> 0, summarized |-> 0, errors |-> 0],
     log     |-> <<>>]

Invocations == {"A", "B"}

\* an invocation of transcribe_audio that has not started
IdleRun ==
    [pc |-> "idle", chunk_duration |-> 0, duration |-> 0, start_time |-> 0,
     end_time |-> 0, chunk_index |-> 0, chunks |-> <<>>]

NoRuns == [p \in Invocations |-> IdleRun]

\* no operation has been called yet
NothingCalled ==
    /\ caller = "none"
    /\ pc = "idle"
    /\ arg_chunk_duration = None
    /\ overlap_seconds = DEFAULT_OVERLAP_SECONDS
    /\ chunk_duration = 0
    /\ duration = 0
    /\ start_time = 0
    /\ end_time = 0
    /\ chunk_index = 0
    /\ chunks = <<>>
    /\ extractor_invoked = FALSE
    /\ extract_failed = FALSE
    /\ tc_path = ORIGINAL
    /\ tc_offset = 0
    /\ tc_calls = <<>>
    /\ response = None
    /\ loop_idx = 0
    /\ all_segments = <<>>
    /\ all_text_parts = <<>>
    /\ language = DEFAULT_LANGUAGE
    /\ chunk_failed = FALSE
    /\ result = None
    /\ episode = None
    /\ te = "idle"
    /\ disk = NoFiles
    /\ runs = NoRuns

\* no episode table is in use
NoTable ==
    /\ podcasts = <<>>
    /\ files = <<>>
    /\ batch = IdleBatch

Init ==
    /\ ffmpeg_installed \in BOOLEAN
    /\ audio \in Files
    /\ db_episode = None
    /\ NothingCalled
    /\ NoTable

\* chunk_audio_file(audio_path, chunk_duration, overlap_seconds), called directly
CallChunkAudioFile(cd, ov) ==
    /\ pc = "idle"
    /\ caller' = "chunk_audio_file"
    /\ arg_chunk_duration' = cd
    /\ overlap_seconds' = ov
    /\ pc' = "caf_entry"
    /\ UNCHANGED <<envVars, runs, tableVars, episodeVars, disk, chunkVars, tc_path,
                   tc_offset, tc_calls, response, loopVars, result>>

\* transcribe_audio_chunk(audio_path, offset_seconds), called directly
CallTranscribeAudioChunk(off) ==
    /\ pc = "idle"
    /\ caller' = "transcribe_audio_chunk"
    /\ tc_path' = ORIGINAL
    /\ tc_offset' = off
    /\ pc' = "tac"
    /\ UNCHANGED <<envVars, runs, tableVars, episodeVars, disk, arg_chunk_duration,
                   overlap_seconds, chunkVars, tc_calls, response, loopVars, result>>

\* transcribe_audio(audio_path) up to its call chunk_audio_file(audio_path_obj)
CallTranscribeAudio ==
    /\ pc = "idle"
    /\ caller' = "transcribe_audio"
    /\ IF ~audio.exists
       THEN /\ result' = None
            /\ pc' = "done"
       ELSE /\ result' = result
            /\ pc' = "caf_entry"
    /\ arg_chunk_duration' = None
    /\ overlap_seconds' = DEFAULT_OVERLAP_SECONDS
    /\ UNCHANGED <<envVars, runs, tableVars, episodeVars, disk, chunkVars, tc_path,
                   tc_offset, tc_calls, response, loopVars>>

\* chunk_audio_file from its first line to the loop
ChunkAudioFileEntry ==
    /\ pc = "caf_entry"
    /\ LET size == GetAudioSizeMb(audio)
           d    == GetAudioDuration(audio)
       IN  IF FfmpegMissing
           THEN /\ chunks' = <<>>
                /\ pc' = "caf_return"
                /\ UNCHANGED <<chunk_duration, duration, start_time, chunk_index>>
           ELSE IF ~NeedsChunking(size)
           THEN /\ chunks' = SingleWindow(d)
                /\ pc' = "caf_return"
                /\ UNCHANGED <<chunk_duration, duration, start_time, chunk_index>>
           ELSE /\ chunk_duration' = ResolveChunkDuration(arg_chunk_duration, size)
                /\ duration' = EstimateDuration(d, size)
                /\ start_time' = 0
                /\ chunk_index' = 0
                /\ chunks' = <<>>
                /\ pc' = "caf_while"
    /\ UNCHANGED <<envVars, runs, tableVars, episodeVars, disk, caller, arg_chunk_duration,
                   overlap_seconds,
                   end_time, extractor_invoked, extract_failed, tc_path, tc_offset,
                   tc_calls, response, loopVars, result>>

\* while start_time < duration: end_time = min(start_time + chunk_duration, duration)
LoopTest ==
    /\ pc = "caf_while"
    /\ IF LoopContinues(start_time, duration)
       THEN /\ end_time' = WindowEnd(start_time, chunk_duration, duration)
            /\ pc' = "caf_extract"
       ELSE /\ end_time' = end_time
            /\ pc' = "caf_return"
    /\ UNCHANGED <<envVars, runs, tableVars, episodeVars, disk, caller, arg_chunk_duration,
                   overlap_seconds,
                   chunk_duration, duration, start_time, chunk_index, chunks,
                   extractor_invoked, extract_failed, tc_path, tc_offset, tc_calls,
                   response, loopVars, result>>

\* ffmpeg exits 0 with the chunk written, exits non-zero with nothing or with
\* a partial file left at the path, or runs into the time-out
ExtractOutcomes == {"ok", "nonzero", "partial", "timeout"}

\* the chunk directory after ffmpeg ran on the window for the invocation `by`
DiskAfterExtract(d, by, outcome, path, start, end) ==
    IF outcome = "ok" THEN WriteFile(d, path, FileContent(by, start, end, TRUE))
    ELSE IF outcome = "partial" THEN WriteFile(d, path, FileContent(by, start, end, FALSE))
    ELSE d

\* the rest of the loop body: run ffmpeg on the window, record it, move on
Extract(outcome) ==
    /\ pc = "caf_extract"
    \* the model records at most MaxChunks chunks: past that, ffmpeg only fails
    /\ outcome = "ok" => Len(chunks) < MaxChunks
    /\ extractor_invoked' = TRUE
    /\ disk' = DiskAfterExtract(disk, "A", outcome, ChunkPath(chunk_index),
                                start_time, end_time)
    /\ IF outcome = "timeout"
       THEN \* subprocess.run raises; except Exception: return []
            /\ chunks' = <<>>
            /\ pc' = "caf_return"
            /\ UNCHANGED <<start_time, chunk_index, extract_failed>>
       ELSE /\ IF outcome = "ok"
               THEN /\ chunks' = Append(chunks,
                                    Window(ChunkPath(chunk_index), start_time, end_time))
                    /\ chunk_index' = chunk_index + 1
                    /\ UNCHANGED extract_failed
               ELSE /\ extract_failed' = TRUE
                    /\ UNCHANGED <<chunks, chunk_index>>
            /\ start_time' = NextStart(end_time, overlap_seconds)
            /\ IF start_time' >= duration
               THEN pc' = "caf_return"
               ELSE pc' = "caf_while"
    /\ UNCHANGED <<envVars, runs, tableVars, episodeVars, caller, arg_chunk_duration,
                   overlap_seconds, chunk_duration, duration, end_time, tc_path,
                   tc_offset, tc_calls, response, loopVars, result>>

\* transcribe_audio from the return of chunk_audio_file to the first service call
AfterChunks ==
    /\ pc = "caf_return"
    /\ caller = "transcribe_audio"
    /\ IF chunks = <<>>
       THEN /\ result' = NoChunksResult
            /\ pc' = "done"
            /\ UNCHANGED <<tc_path, tc_offset, loopVars>>
       ELSE IF IsOriginalOnly(chunks)
       THEN \* return self.transcribe_audio_chunk(audio_path_obj, offset_seconds=0.0)
            /\ tc_path' = ORIGINAL
            /\ tc_offset' = 0
            /\ pc' = "tac"
            /\ UNCHANGED <<loopVars, result>>
       ELSE \* for idx, (chunk_path, start_time, end_time) in enumerate(chunks)
            /\ all_segments' = <<>>
            /\ all_text_parts' = <<>>
            /\ language' = DEFAULT_LANGUAGE
            /\ loop_idx' = 1
            /\ tc_path' = chunks[1].path
            /\ tc_offset' = chunks[1].start
            /\ pc' = "tac"
            /\ UNCHANGED <<chunk_failed, result>>
    /\ UNCHANGED <<envVars, runs, tableVars, episodeVars, disk, caller, arg_chunk_duration,
                   overlap_seconds,
                   chunkVars, tc_calls, response>>

\* what can happen to one call of transcribe_audio_chunk on the file at `path`
ServiceOutcomes(path) ==
    IF path = ORIGINAL /\ ~audio.exists
    THEN {[kind |-> "open_failed"]}
    ELSE {[kind |-> "http_error"]} \cup {[kind |-> "ok", body |-> r] : r \in Responses}

SizesOf(path) == IF path = ORIGINAL THEN {GetAudioSizeMb(audio)} ELSE ChunkFileSizes

\* mutant: the HTTP status is not checked and the error body is read as an answer
ChunkReturn_StatusUnchecked(size, outcome, offset) ==
    IF TooLarge(size) \/ outcome.kind = "open_failed"
    THEN None
    ELSE Some(ChunkResult(IF outcome.kind = "ok" THEN outcome.body ELSE <<>>, offset))

\* transcribe_audio_chunk's return value
ChunkReturn(size, outcome, offset) ==
    IF TooLarge(size) \/ outcome.kind # "ok"
    THEN None
    ELSE Some(ChunkResult(outcome.body, offset))

\* one call of transcribe_audio_chunk, and what its caller does with the value
TranscribeAudioChunk(size, outcome) ==
    /\ pc = "tac"
    /\ LET \* requests.post was reached
           posted == ~TooLarge(size) /\ outcome.kind # "open_failed"
           ret    == ChunkReturn(size, outcome, tc_offset)
       IN  /\ tc_calls' = Append(tc_calls, [path |-> tc_path, offset |-> tc_offset,
                                            size |-> size, posted |-> posted,
                                            kind |-> outcome.kind, ret |-> ret,
                                            ok |-> ~IsNone(ret)])
           /\ response' = IF posted /\ outcome.kind = "ok" THEN Some(outcome.body) ELSE None
           /\ IF loop_idx = 0
              THEN \* called directly, or on the original file by transcribe_audio
                   /\ result' = ret
                   /\ pc' = "done"
                   /\ UNCHANGED <<tc_path, tc_offset, loopVars, disk>>
              ELSE \* the body of transcribe_audio's chunk loop
                   LET ok    == ~IsNone(ret)
                       segs  == IF ok THEN all_segments \o ret[1].segments ELSE all_segments
                       parts == IF ok THEN Append(all_text_parts, ret[1].text)
                                      ELSE all_text_parts
                       lang  == IF ok /\ ret[1].language # "" THEN ret[1].language
                                      ELSE language
                   IN  /\ all_segments' = segs
                       /\ all_text_parts' = parts
                       /\ language' = lang
                       /\ chunk_failed' = (chunk_failed \/ ~ok)
                       /\ IF loop_idx < Len(chunks)
                          THEN /\ loop_idx' = loop_idx + 1
                               /\ tc_path' = chunks[loop_idx + 1].path
                               /\ tc_offset' = chunks[loop_idx + 1].start
                               /\ pc' = "tac"
                               /\ UNCHANGED <<result, disk>>
                          ELSE \* cleanup_chunks(chunks); merge
                               /\ disk' = CleanupChunks(disk, chunks)
                               /\ result' = MergeOrFail(segs, lang, parts, chunks)
                               /\ pc' = "done"
                               /\ UNCHANGED <<loop_idx, tc_path, tc_offset>>
    /\ UNCHANGED <<envVars, runs, tableVars, episodeVars, caller, arg_chunk_duration,
                   overlap_seconds, chunkVars>>

\* cleanup_chunks(chunks), called on the list chunk_audio_file returned
CallCleanupChunks ==
    /\ pc = "caf_return"
    /\ caller = "chunk_audio_file"
    /\ disk' = CleanupChunks(disk, chunks)
    /\ pc' = "cleaned"
    /\ UNCHANGED <<envVars, runs, tableVars, episodeVars, caller, arg_chunk_duration,
                   overlap_seconds, chunkVars, tc_path, tc_offset, tc_calls, response,
                   loopVars, result>>

Next ==
    \/ \E cd \in ChunkDurationArgs, ov \in OverlapArgs : CallChunkAudioFile(cd, ov)
    \/ \E off \in OffsetArgs : CallTranscribeAudioChunk(off)
    \/ CallTranscribeAudio
    \/ ChunkAudioFileEntry
    \/ LoopTest
    \/ \E outcome \in ExtractOutcomes : Extract(outcome)
    \/ AfterChunks
    \/ \E size \in SizesOf(tc_path), outcome \in ServiceOutcomes(tc_path) :
           TranscribeAudioChunk(size, outcome)
    \/ CallCleanupChunks

Spec == Init /\ [][Next]_vars

\* the calls are made and every started step is taken
FairSpec == Spec /\ WF_vars(Next)

----------------------------------------------------------------------------
(* utils/postgres_db.py: the episode row, and transcribe_episode *)

Statuses == {"downloaded", "transcribed", "processed"}

\* the transcript JSON add_transcript_segments builds from a segment list
TranscriptData(segments) ==
    [segments |-> segments,
     text     |-> JoinWithSpace([i \in 1..Len(segments) |-> Get(segments[i], "text", <<>>)]),
     language |-> "en",
     provider |-> "groq",
     chunked  |-> FALSE]

\* the segments of a transcript stored by an earlier run
StoredSegments ==
    << [start |-> 0, end |-> 4, text |-> <<"o">>, speaker |-> None, confidence |-> 1] >>

\* the summary JSON add_summary builds from the model's answer
SummaryData(full_summary) ==
    [key_topics |-> <<>>, themes |-> <<>>, quotes |-> <<>>, startups |-> <<>>,
     summary |-> full_summary]

\* the summary of a row an earlier run processed
StoredSummary == SummaryData(<<"s">>)

\* the rows get_episode_by_id may find for the episode id (None: no such row);
\* a processed row carries the summary that made it processed
EpisodeRows ==
    {None} \cup
    { Some([status          |-> s,
            audio_file_path |-> p,
            transcript      |-> t,
            summary         |-> IF s = "processed" THEN Some(StoredSummary) ELSE None]) :
        s \in Statuses,
        p \in {None, Some(ORIGINAL)},
        t \in {None, Some(TranscriptData(StoredSegments))} }

\* update_podcast(podcast_id, status=..., transcript=...): sets the fields given
UpdatePodcast(db, status, transcript) ==
    IF IsNone(db)
    THEN db
    ELSE Some([db[1] EXCEPT !.status = IF IsNone(status) THEN @ ELSE status[1],
                            !.transcript = IF IsNone(transcript) THEN @ ELSE transcript])

AddTranscriptSegments(db, segments) ==
    IF IsNone(db)
    THEN db
    ELSE UpdatePodcast(db, Some("transcribed"), Some(TranscriptData(segments)))

UpdateEpisodeStatus(db, status) == UpdatePodcast(db, Some(status), None)

\* mutant: only a processed episode counts as done
AlreadyTranscribed_OnlyProcessed(row) == row.status = "processed"

AlreadyTranscribed(row) == row.status = "transcribed" \/ row.status = "processed"

\* not file_path or not Path(file_path).exists()
AudioFileMissing(row) == IsNone(row.audio_file_path) \/ ~audio.exists

\* how the two writes of transcribe_episode can go: both commit, the first
\* raises (and is rolled back), or the second raises
DbOutcomes == {"ok", "store_fails", "status_fails"}

\* mutant: the status is set before the result is looked at
DbAfterTranscribe_StatusFirst(db, res, dbo) ==
    UpdateEpisodeStatus(IF IsNone(res) \/ dbo = "store_fails"
                        THEN db
                        ELSE AddTranscriptSegments(db, res[1].segments),
                        "transcribed")

\* the row after transcribe_episode has dealt with transcribe_audio's result
DbAfterTranscribe(db, res, dbo) ==
    IF IsNone(res) \/ dbo = "store_fails"
    THEN db
    ELSE IF dbo = "status_fails"
    THEN AddTranscriptSegments(db, res[1].segments)
    ELSE UpdateEpisodeStatus(AddTranscriptSegments(db, res[1].segments), "transcribed")

\* how transcribe_episode ends after transcribe_audio
EndOfTranscribe(res, dbo) ==
    IF IsNone(res) THEN "False" ELSE IF dbo = "ok" THEN "True" ELSE "raised"

EpisodeInit ==
    /\ ffmpeg_installed \in BOOLEAN
    /\ audio \in Files
    /\ db_episode \in EpisodeRows
    /\ NothingCalled
    /\ NoTable

\* transcribe_episode(episode_id) up to chunk_audio_file inside transcribe_audio
CallTranscribeEpisode ==
    /\ pc = "idle"
    /\ te = "idle"
    /\ episode' = db_episode
    /\ IF \/ IsNone(db_episode)
          \/ AlreadyTranscribed(db_episode[1])
          \/ AudioFileMissing(db_episode[1])
       THEN /\ te' = "False"
            /\ caller' = "transcribe_episode"
            /\ pc' = "done"
       ELSE /\ te' = "running"
            /\ caller' = "transcribe_audio"
            /\ pc' = "caf_entry"
    /\ arg_chunk_duration' = None
    /\ overlap_seconds' = DEFAULT_OVERLAP_SECONDS
    /\ UNCHANGED <<envVars, runs, tableVars, db_episode, disk, chunkVars, tc_path, tc_offset,
                   tc_calls, response, loopVars, result>>

\* transcribe_episode from the return of transcribe_audio to its own return
TranscribeEpisodeReturn(dbo) ==
    /\ pc = "done"
    /\ te = "running"
    /\ db_episode' = DbAfterTranscribe(db_episode, result, dbo)
    /\ te' = EndOfTranscribe(result, dbo)
    /\ UNCHANGED <<envVars, runs, tableVars, episode, disk, caller, pc, arg_chunk_duration,
                   overlap_seconds, chunkVars, tc_path, tc_offset, tc_calls, response,
                   loopVars, result>>

EpisodeNext ==
    \/ CallTranscribeEpisode
    \/ ChunkAudioFileEntry
    \/ LoopTest
    \/ \E outcome \in ExtractOutcomes : Extract(outcome)
    \/ AfterChunks
    \/ \E size \in SizesOf(tc_path), outcome \in ServiceOutcomes(tc_path) :
           TranscribeAudioChunk(size, outcome)
    \/ \E dbo \in DbOutcomes : TranscribeEpisodeReturn(dbo)

EpisodeSpec == EpisodeInit /\ [][EpisodeNext]_vars

----------------------------------------------------------------------------
(* utils/cleaner_groq.py: generate_summary, on a row of the podcasts table    *)

\* add_summary(...): update_podcast(status='processed', summary=summary_data)
AddSummary(db, summary) ==
    IF IsNone(db)
    THEN db
    ELSE Some([UpdatePodcast(db, Some("processed"), None)[1] EXCEPT !.summary = Some(summary)])

\* get_transcripts_for_episode: the texts of the stored segments
SegmentTexts(db) ==
    IF IsNone(db) \/ IsNone(db[1].transcript)
    THEN <<>>
    ELSE LET segs == Get(db[1].transcript[1], "segments", <<>>)
         IN  [i \in 1..Len(segs) |-> Get(segs[i], "text", <<>>)]

\* "\n".join(...)
RECURSIVE JoinWithNewline(_)
JoinWithNewline(parts) ==
    IF parts = <<>> THEN <<>>
    ELSE IF Len(parts) = 1 THEN parts[1]
    ELSE parts[1] \o <<"\n">> \o JoinWithNewline(Tail(parts))

\* not s.strip(): nothing but white space
IsBlank(s) == \A i \in 1..Len(s) : s[i] \in {" ", "\n"}

\* mutant: the transcript text is not looked at
NoTranscriptText_Unchecked(db) == FALSE

\* not full_text.strip()
NoTranscriptText(db) == IsBlank(JoinWithNewline(SegmentTexts(db)))

\* status 'processed' with a summary: the stored summary is returned
HasSummary(db) == db[1].status = "processed" /\ ~IsNone(db[1].summary)

\* what _generate_structured_summary gives: the model's dict, a falsy answer,
\* or (the chain raised) the basic extraction
LlmOutcomes == {"dict", "falsy", "raises"}

LlmSummary == SummaryData(<<"s">>)

BasicSummary == SummaryData(<<"P", "o", "d", "c", "a", "s", "t">>)

SummaryOf(llm) ==
    IF llm = "dict" THEN Some(LlmSummary)
    ELSE IF llm = "raises" THEN Some(BasicSummary)
    ELSE None

\* the row after generate_summary; dbo says how its two writes go
DbAfterSummary(db, llm, dbo) ==
    IF IsNone(db) \/ HasSummary(db) \/ NoTranscriptText(db) \/ IsNone(SummaryOf(llm))
       \/ dbo = "store_fails"
    THEN db
    ELSE IF dbo = "status_fails"
    THEN AddSummary(db, SummaryOf(llm)[1])
    ELSE UpdateEpisodeStatus(AddSummary(db, SummaryOf(llm)[1]), "processed")

\* how generate_summary ends: a summary, None (or a falsy answer), or raised
EndOfSummary(db, llm, dbo) ==
    IF IsNone(db) THEN "None"
    ELSE IF HasSummary(db) THEN "summary"
    ELSE IF NoTranscriptText(db) \/ IsNone(SummaryOf(llm)) THEN "None"
    ELSE IF dbo = "ok" THEN "summary"
    ELSE "raised"

----------------------------------------------------------------------------
(* Episodes in the podcasts table: calls of transcribe_episode and           *)
(* generate_summary, each taken as one step                                  *)

EpisodeIds == {1, 2}

\* the audio files of the episodes in the table
EpisodeFiles ==
    {f \in Files : ~f.exists \/ (f.size_mb \in {15, 95} /\ f.probe = Some(1800))}

\* the answers of the service to the calls made for episodes
EpisodeResponses ==
    {r \in Responses : /\ DOMAIN r = {"segments", "text", "language"}
                       /\ r.language = "de"
                       /\ Len(r.segments) <= 1}

\* transcribe_audio(file_path) does not return: chunk_audio_file is entered
\* with a file that needs chunking and its loop does not end
TranscribeAudioHangs(f) ==
    f.exists /\ ~FfmpegMissing /\ NeedsChunking(GetAudioSizeMb(f))

\* what transcribe_audio(file_path) can return when it returns: None, or for
\* a file that is not chunked the dict of transcribe_audio_chunk
TranscribeAudioReturns(f) ==
    IF ~f.exists \/ FfmpegMissing \/ NeedsChunking(GetAudioSizeMb(f))
       \/ TooLarge(GetAudioSizeMb(f))
    THEN {None}
    ELSE {None} \cup {Some(ChunkResult(r, 0)) : r \in EpisodeResponses}

\* transcribe_episode returns False before transcribe_audio is called
TranscribeRefused(db, f) ==
    \/ IsNone(db)
    \/ AlreadyTranscribed(db[1])
    \/ IsNone(db[1].audio_file_path)
    \/ ~f.exists

\* the row after transcribe_episode
DbAfterTranscribeEpisode(db, f, res, dbo) ==
    IF TranscribeRefused(db, f) THEN db ELSE DbAfterTranscribe(db, res, dbo)

\* how transcribe_episode ends
EndOfTranscribeEpisode(db, f, res, dbo) ==
    IF TranscribeRefused(db, f) THEN "False" ELSE EndOfTranscribe(res, dbo)

\* the row the downloader saves for an episode (or for a feed, without a file)
DownloadedRow(path) ==
    Some([status |-> "downloaded", audio_file_path |-> path, transcript |-> None,
          summary |-> None])

\* the tables the downloader leaves
DownloadedTables ==
    [EpisodeIds -> {DownloadedRow(None), DownloadedRow(Some(ORIGINAL))}]

LifecycleInit ==
    /\ ffmpeg_installed \in BOOLEAN
    /\ audio \in {f \in Files : ~f.exists}
    /\ db_episode = None
    /\ NothingCalled
    /\ podcasts \in DownloadedTables
    /\ files \in [EpisodeIds -> EpisodeFiles]
    /\ batch = IdleBatch

\* transcribe_episode(id), from call to return
TranscribeEpisodeCall(id, dbo) ==
    /\ batch.pc = "idle"
    /\ \E res \in TranscribeAudioReturns(files[id]) :
           podcasts' = [podcasts EXCEPT
                           ![id] = DbAfterTranscribeEpisode(@, files[id], res, dbo)]
    /\ UNCHANGED <<envVars, runs, disk, soloVars, files, batch>>

\* generate_summary(id), from call to return
GenerateSummaryCall(id, llm, dbo) ==
    /\ batch.pc = "idle"
    /\ podcasts' = [podcasts EXCEPT ![id] = DbAfterSummary(@, llm, dbo)]
    /\ UNCHANGED <<envVars, runs, disk, soloVars, files, batch>>

LifecycleNext ==
    \/ \E id \in EpisodeIds, dbo \in DbOutcomes : TranscribeEpisodeCall(id, dbo)
    \/ \E id \in EpisodeIds, llm \in LlmOutcomes, dbo \in DbOutcomes :
           GenerateSummaryCall(id, llm, dbo)

LifecycleSpec == LifecycleInit /\ [][LifecycleNext]_vars

----------------------------------------------------------------------------
(* utils/processing.py: process_all_episodes *)

\* the order in which get_all_podcasts lists the rows
QueryOrder == <<1, 2>>

\* get_episodes_by_status(status): the ids of the rows with that status
EpisodesByStatus(tbl, status) ==
    SelectSeq(QueryOrder, LAMBDA id : ~IsNone(tbl[id]) /\ tbl[id][1].status = status)

StatusesOf(tbl) ==
    [id \in EpisodeIds |-> IF IsNone(tbl[id]) THEN "none" ELSE tbl[id][1].status]

\* mutant: the episodes to summarize are those transcribed when the call began
SummarizeQueue_AtStart(tbl, started) ==
    SelectSeq(QueryOrder, LAMBDA id : started[id] = "transcribed")

\* step 2's work list: get_episodes_by_status('transcribed'), asked after step 1
SummarizeQueue(tbl, started) == EpisodesByStatus(tbl, "transcribed")

\* results[key] += 1
Count(results, key) == [results EXCEPT ![key] = @ + 1]

\* process_all_episodes(db) is called: the downloaded episodes are listed
ProcessAllStart ==
    /\ batch.pc = "idle"
    /\ batch' = [pc      |-> "step1",
                 queue   |-> EpisodesByStatus(podcasts, "downloaded"),
                 started |-> StatusesOf(podcasts),
                 results |-> [transcribed |-> 0, summarized |-> 0, errors |-> 0],
                 log     |-> <<>>]
    /\ UNCHANGED <<envVars, runs, disk, soloVars, podcasts, files>>

\* one round of step 1's loop: transcribe_episode(episode['id']) and the count;
\* hangs: transcribe_audio does not return, and neither does the round
Step1Transcribe(dbo, hangs) ==
    /\ batch.pc = "step1"
    /\ batch.queue # <<>>
    /\ LET id == Head(batch.queue)
           db == podcasts[id]
           f  == files[id]
       IN  IF hangs
           THEN /\ ~TranscribeRefused(db, f)
                /\ TranscribeAudioHangs(f)
                /\ batch' = [batch EXCEPT !.pc = "hung"]
                /\ UNCHANGED podcasts
           ELSE \E res \in TranscribeAudioReturns(f) :
                   LET ret == EndOfTranscribeEpisode(db, f, res, dbo)
                   IN  /\ podcasts' = [podcasts EXCEPT
                                          ![id] = DbAfterTranscribeEpisode(db, f, res, dbo)]
                       /\ batch' = [batch EXCEPT
                              !.queue = Tail(@),
                              !.results = Count(@, IF ret = "True" THEN "transcribed"
                                                                   ELSE "errors"),
                              !.log = Append(@, [pass |-> "transcribe", id |-> id,
                                                 ret |-> ret])]
    /\ UNCHANGED <<envVars, runs, disk, soloVars, files>>

\* step 1's loop is over: the transcribed episodes are listed
Step2Query ==
    /\ batch.pc = "step1"
    /\ batch.queue = <<>>
    /\ batch' = [batch EXCEPT !.pc = "step2",
                              !.queue = SummarizeQueue(podcasts, batch.started)]
    /\ UNCHANGED <<envVars, runs, disk, soloVars, podcasts, files>>

\* one round of step 2's loop: generate_summary(episode['id']) and the count
Step2Summarize(llm, dbo) ==
    /\ batch.pc = "step2"
    /\ batch.queue # <<>>
    /\ LET id  == Head(batch.queue)
           db  == podcasts[id]
           ret == EndOfSummary(db, llm, dbo)
       IN  /\ podcasts' = [podcasts EXCEPT ![id] = DbAfterSummary(db, llm, dbo)]
           /\ batch' = [batch EXCEPT
                  !.queue = Tail(@),
                  !.results = Count(@, IF ret = "summary" THEN "summarized" ELSE "errors"),
                  !.log = Append(@, [pass |-> "summarize", id |-> id, ret |-> ret])]
    /\ UNCHANGED <<envVars, runs, disk, soloVars, files>>

\* return results
ProcessAllReturn ==
    /\ batch.pc = "step2"
    /\ batch.queue = <<>>
    /\ batch' = [batch EXCEPT !.pc = "returned"]
    /\ UNCHANGED <<envVars, runs, disk, soloVars, podcasts, files>>

\* process_all_episodes called after any earlier calls on the episodes
PipelineNext ==
    \/ \E id \in EpisodeIds, dbo \in DbOutcomes : TranscribeEpisodeCall(id, dbo)
    \/ \E id \in EpisodeIds, llm \in LlmOutcomes, dbo \in DbOutcomes :
           GenerateSummaryCall(id, llm, dbo)
    \/ ProcessAllStart
    \/ \E dbo \in DbOutcomes, hangs \in BOOLEAN : Step1Transcribe(dbo, hangs)
    \/ Step2Query
    \/ \E llm \in LlmOutcomes, dbo \in DbOutcomes : Step2Summarize(llm, dbo)
    \/ ProcessAllReturn

PipelineSpec == LifecycleInit /\ [][PipelineNext]_vars

----------------------------------------------------------------------------
(* Two calls of transcribe_audio on the same source file, running at the     *)
(* same time (two processes, one chunk directory)                            *)

\* most chunks one concurrent invocation records
MaxRunChunks == 3

\* the source files the concurrent calls are run on
SharedFiles ==
    {f \in Files : f.exists /\ f.size_mb \in {15, 80} /\ f.probe \in {Some(1800), Some(6600)}}

RunExtractOutcomes == {"ok", "nonzero"}

\* mutant: every invocation has a chunk directory of its own
RunChunkPath_PerRun(p, i) == <<"chunk", p, ZeroPad4(Decimal(i))>>

\* the chunk path invocation p derives for index i: directory and file name
\* come from the source file and the index only
RunChunkPath(p, i) == ChunkPath(i)

ConcurrentInit ==
    /\ ffmpeg_installed \in BOOLEAN
    /\ audio \in SharedFiles
    /\ db_episode = None
    /\ NothingCalled
    /\ NoTable

\* transcribe_audio(audio_path) called by invocation p
RunCall(p) ==
    /\ runs[p].pc = "idle"
    /\ runs' = [runs EXCEPT ![p].pc = IF ~audio.exists THEN "done" ELSE "caf_entry"]
    /\ UNCHANGED <<envVars, tableVars, disk, soloVars>>

\* chunk_audio_file from its first line to the loop, in invocation p
RunEntry(p) ==
    /\ runs[p].pc = "caf_entry"
    /\ LET size == GetAudioSizeMb(audio)
           d    == GetAudioDuration(audio)
       IN  runs' = [runs EXCEPT ![p] =
               IF FfmpegMissing
               THEN [@ EXCEPT !.chunks = <<>>, !.pc = "caf_return"]
               ELSE IF ~NeedsChunking(size)
               THEN [@ EXCEPT !.chunks = SingleWindow(d), !.pc = "caf_return"]
               ELSE [@ EXCEPT !.chunk_duration = ResolveChunkDuration(None, size),
                              !.duration = EstimateDuration(d, size),
                              !.start_time = 0,
                              !.chunk_index = 0,
                              !.chunks = <<>>,
                              !.pc = "caf_while"]]
    /\ UNCHANGED <<envVars, tableVars, disk, soloVars>>

\* the loop test and the window's end, in invocation p
RunLoopTest(p) ==
    /\ runs[p].pc = "caf_while"
    /\ LET r == runs[p]
       IN  runs' = [runs EXCEPT ![p] =
               IF LoopContinues(r.start_time, r.duration)
               THEN [@ EXCEPT !.end_time = WindowEnd(r.start_time, r.chunk_duration,
                                                     r.duration),
                              !.pc = "caf_extract"]
               ELSE [@ EXCEPT !.pc = "caf_return"]]
    /\ UNCHANGED <<envVars, tableVars, disk, soloVars>>

\* ffmpeg run on the window and the rest of the loop body, in invocation p
RunExtract(p, outcome) ==
    /\ runs[p].pc = "caf_extract"
    /\ outcome = "ok" => Len(runs[p].chunks) < MaxRunChunks
    /\ LET r     == runs[p]
           path  == RunChunkPath(p, r.chunk_index)
           start == NextStart(r.end_time, DEFAULT_OVERLAP_SECONDS)
       IN  /\ disk' = DiskAfterExtract(disk, p, outcome, path, r.start_time, r.end_time)
           /\ runs' = [runs EXCEPT ![p] =
                  [@ EXCEPT !.chunks = IF outcome = "ok"
                                       THEN Append(r.chunks,
                                                   Window(path, r.start_time, r.end_time))
                                       ELSE r.chunks,
                            !.chunk_index = IF outcome = "ok" THEN @ + 1 ELSE @,
                            !.start_time = start,
                            !.pc = IF start >= r.duration THEN "caf_return"
                                                          ELSE "caf_while"]]
    /\ UNCHANGED <<envVars, tableVars, soloVars>>

\* transcribe_audio after chunk_audio_file returned, in invocation p: the
\* chunk files are read from the paths in the list and submitted
RunSubmit(p) ==
    /\ runs[p].pc = "caf_return"
    /\ runs' = [runs EXCEPT ![p].pc = "done"]
    /\ UNCHANGED <<envVars, tableVars, disk, soloVars>>

ConcurrentNext ==
    \E p \in Invocations :
        \/ RunCall(p)
        \/ RunEntry(p)
        \/ RunLoopTest(p)
        \/ \E outcome \in RunExtractOutcomes : RunExtract(p, outcome)
        \/ RunSubmit(p)

ConcurrentSpec == ConcurrentInit /\ [][ConcurrentNext]_vars

----------------------------------------------------------------------------
(* Chunk planning: chunk_audio_file *)

Returned == pc = "caf_return"

SizeBelowThreshold == audio.exists /\ GetAudioSizeMb(audio) < MAX_CHUNK_SIZE_MB

\* C1: chunk planning terminates; in particular it stops once a window's end
\* has reached the total duration: the step that handles a window ending at
\* `duration` is the last step of the loop and chunk_audio_file returns.
C1_PlanningStopsAtDuration ==
    [][(pc = "caf_extract" /\ end_time = duration) => pc' = "caf_return"]_vars

\* C2: in every multi-window plan that chunk_audio_file returns with no
\* extraction failed, the starts are strictly increasing, each window but the
\* last ends at or after the start of the next, and the last ends at `duration`.
C2_ReturnedPlanInvariant ==
    (Returned /\ Len(chunks) > 1 /\ ~extract_failed) =>
        /\ \A i \in 1..(Len(chunks) - 1) :
              /\ chunks[i].start < chunks[i + 1].start
              /\ chunks[i].end >= chunks[i + 1].start
        /\ chunks[Len(chunks)].end = duration

C2_Witness ==
    /\ Returned
    /\ Len(chunks) = 4
    /\ ~extract_failed
    /\ overlap_seconds = 0
    /\ duration = 6600

\* the one window of the original file, ending at the file's duration (0 when
\* the duration is unknown)
OriginalWindow == <<Window(ORIGINAL, 0, OrElse(audio.probe, 0))>>

SmallFileHandling ==
    /\ Returned => (chunks = OriginalWindow /\ ~extractor_invoked)
    /\ (caller = "transcribe_audio" /\ pc = "tac") =>
           (tc_path = ORIGINAL /\ tc_offset = 0)
    /\ (caller = "transcribe_audio" /\ pc = "done") =>
           /\ ~extractor_invoked
           /\ Len(tc_calls) = 1
           /\ tc_calls[1].path = ORIGINAL
           /\ tc_calls[1].offset = 0

ScenarioWindows ==
    << Window(ChunkPath(0), 0, 1800),
       Window(ChunkPath(1), 1795, 3600),
       Window(ChunkPath(2), 3595, 5400),
       Window(ChunkPath(3), 5395, 6600) >>

Scenario95MB ==
    /\ ffmpeg_installed
    /\ audio = [exists |-> TRUE, size_mb |-> 95, probe |-> Some(6600)]
    /\ caller \in {"chunk_audio_file", "transcribe_audio"}
    /\ arg_chunk_duration = None
    /\ overlap_seconds = DEFAULT_OVERLAP_SECONDS
    /\ ~extract_failed

\* C4: for the 95 MB, 6600 s file (threshold 80 MB, chunk duration 1800 s,
\* overlap 5 s) the planner produces exactly the 4 windows (0,0,1800),
\* (1,1795,3600), (2,3595,5400), (3,5395,6600): every window it records is the
\* corresponding one of these, and there is no fifth.
C4_ScenarioFourWindows ==
    Scenario95MB =>
        /\ Len(chunks) <= Len(ScenarioWindows)
        /\ \A i \in 1..Len(chunks) : i <= 4 => chunks[i] = ScenarioWindows[i]

\* the windows cs cover [0, dur]: the first starts at 0, each window but the
\* last reaches the start of the next, and the last reaches dur
Covers(cs, dur) ==
    /\ cs[1].start = 0
    /\ \A i \in 1..(Len(cs) - 1) : cs[i].end >= cs[i + 1].start
    /\ cs[Len(cs)].end >= dur

\* C11 as claimed: every list of more than one window that chunk_audio_file
\* returns covers [0, duration] with no gaps.
C11_ReturnedPlanCovers ==
    (Returned /\ Len(chunks) > 1) => Covers(chunks, duration)

\* C11 amended: every list of more than one window that chunk_audio_file
\* returns after all its extractions succeeded covers [0, duration] with no
\* gaps.
C11_ReturnedPlanCoversWhenAllExtracted ==
    (Returned /\ Len(chunks) > 1 /\ ~extract_failed) => Covers(chunks, duration)

C11_Witness ==
    /\ Returned
    /\ ~extract_failed
    /\ arg_chunk_duration = Some(3600)
    /\ duration = 6600
    /\ chunks = << Window(ChunkPath(0), 0, 3600), Window(ChunkPath(1), 3600, 6600) >>

\* chunk_audio_file is past its size test on a file that needs chunking and
\* whose duration probe failed although ffmpeg is installed
ProbeFailedOnLargeFile ==
    /\ caller \in {"chunk_audio_file", "transcribe_audio"}
    /\ pc \notin {"idle", "caf_entry"}
    /\ ffmpeg_installed
    /\ audio.exists
    /\ NeedsChunking(GetAudioSizeMb(audio))
    /\ IsNone(audio.probe)

\* C20: when the duration is unknown and the file is at or above the size
\* threshold, the planner works with duration = size in MB * 60 and goes into
\* its loop: chunk_audio_file returns an empty list only after it has run an
\* extraction (which then failed), never because of the probe.
C20_ProbeFailureRecovered ==
    ProbeFailedOnLargeFile =>
        /\ duration = GetAudioSizeMb(audio) * SECONDS_PER_MB
        /\ (Returned /\ chunks = <<>>) => extractor_invoked

C20_Witness ==
    /\ ProbeFailedOnLargeFile
    /\ Returned
    /\ audio.size_mb = 95
    /\ duration = 5700
    /\ Len(chunks) = 4
    /\ chunks[4] = Window(ChunkPath(3), 5400, 5700)

\* C29: with no explicit chunk_duration every window chunk_audio_file extracts
\* is cut with the 1800 s tier: a file that reaches the extraction loop is at
\* least 80 MB, so the 3600 s tier of files under 50 MB is never selected.
C29_LargeTierOnly ==
    (extractor_invoked /\ IsNone(arg_chunk_duration)) =>
        /\ chunk_duration = MAX_CHUNK_DURATION_SECONDS_LARGE
        /\ \A i \in 1..Len(chunks) :
              chunks[i].end - chunks[i].start <= MAX_CHUNK_DURATION_SECONDS_LARGE

C29_Witness ==
    /\ extractor_invoked
    /\ IsNone(arg_chunk_duration)
    /\ audio.size_mb = 80
    /\ Len(chunks) >= 2
    /\ chunks[1] = Window(ChunkPath(0), 0, 1800)

\* C25: in the list chunk_audio_file returns, the i-th extracted window is at
\* the path chunk_<i-1 zero-padded>.mp3 of the chunk directory, no two windows
\* share a path, and the file at each path is still the whole cut of that
\* window: no later extraction has written over it.
C25_ReturnedPathsDistinctAndIntact ==
    (Returned /\ ~IsOriginalOnly(chunks)) =>
        /\ \A i \in 1..Len(chunks) :
              /\ chunks[i].path = ChunkPath(i - 1)
              /\ chunks[i].path \in DOMAIN disk
              /\ disk[chunks[i].path] =
                     FileContent("A", chunks[i].start, chunks[i].end, TRUE)
        /\ \A i, j \in 1..Len(chunks) : i # j => chunks[i].path # chunks[j].path

C25_Witness ==
    /\ Returned
    /\ extract_failed
    /\ duration = 6600
    /\ Len(chunks) = 3
    /\ chunks[2] = Window(ChunkPath(1), 3600, 5400)
    /\ chunks[3] = Window(ChunkPath(2), 5400, 6600)

\* C24: no step of the transcription flow removes a chunk file: a file that
\* was extracted exists from then on, through every return of
\* transcribe_audio and every call of cleanup_chunks.
C24_ChunkFilesKept ==
    [][\A p \in DOMAIN disk : p \in DOMAIN disk']_vars

C24_Witness ==
    /\ caller = "transcribe_audio"
    /\ pc = "done"
    /\ IsNone(result)
    /\ \E p \in DOMAIN disk : disk[p].whole

\* xs is a prefix of ys
IsPrefix(xs, ys) == Len(xs) <= Len(ys) /\ SubSeq(ys, 1, Len(xs)) = xs

\* C12: whatever happens to the extraction of one window (a time-out
\* included), the windows extracted before it stay in chunk_audio_file's
\* output, and the loop goes on to the windows after it unless this window
\* reached the end of the file.
C12_TimeoutOmitsOnlyThatWindow ==
    [][pc = "caf_extract" =>
          /\ IsPrefix(chunks, chunks')
          /\ end_time < duration => pc' = "caf_while"]_vars

----------------------------------------------------------------------------
(* Chunk transcription: transcribe_audio_chunk *)

\* transcribe_audio_chunk has returned a dict for the answer in `response`
ChunkTranscribed ==
    /\ pc = "done"
    /\ loop_idx = 0
    /\ ~IsNone(result)
    /\ ~IsNone(response)

\* C5: every segment transcribe_audio_chunk returns has start = the start the
\* service reported + offset_seconds and end = the end the service reported +
\* offset_seconds (a time the service left out counts as 0).
C5_SegmentsShiftedByOffset ==
    (ChunkTranscribed /\ HasSegments(response[1])) =>
        LET reported == response[1]["segments"]
            returned == result[1].segments
        IN  /\ Len(returned) = Len(reported)
            /\ \A i \in 1..Len(reported) :
                  /\ returned[i].start = Get(reported[i], "start", 0) + tc_offset
                  /\ returned[i].end = Get(reported[i], "end", 0) + tc_offset

C5_Witness ==
    /\ ChunkTranscribed
    /\ HasSegments(response[1])
    /\ tc_offset = 1795
    /\ Len(result[1].segments) = 2
    /\ result[1].segments[2].start = 1797
    /\ result[1].segments[2].end = 1798

\* C6: when the service answers with flat text only, the one synthesized
\* segment spans the window's nominal start and end, with the flat text,
\* confidence 1.0 and speaker None.  (Stated on the window transcribe_audio
\* hands to transcribe_audio_chunk.)
C6_FallbackSpansWindow ==
    (ChunkTranscribed /\ caller = "transcribe_audio" /\ ~HasSegments(response[1])) =>
        result[1].segments =
            << [start      |-> chunks[1].start,
                end        |-> chunks[1].end,
                text       |-> Get(response[1], "text", <<>>),
                speaker    |-> None,
                confidence |-> 1] >>

\* the times the service reported lie within a file of `len` seconds
ReportedWithin(r, len) ==
    HasSegments(r) =>
        \A i \in 1..Len(r["segments"]) :
            /\ Get(r["segments"][i], "start", 0) >= 0
            /\ Get(r["segments"][i], "end", 0) <= len

\* C21: for a chunk file of known length transcribed with offset start_i
\* (window end end_i = start_i + length) and service times within the file,
\* every segment transcribe_audio_chunk returns, the synthesized one of the
\* flat-text fallback included, has start >= start_i and end <= end_i.
C21_SegmentsInsideWindow ==
    (ChunkTranscribed /\ ~IsNone(audio.probe)
                      /\ ReportedWithin(response[1], audio.probe[1])) =>
        \A i \in 1..Len(result[1].segments) :
            /\ result[1].segments[i].start >= tc_offset
            /\ result[1].segments[i].end <= tc_offset + audio.probe[1]

C21_Witness ==
    /\ ChunkTranscribed
    /\ audio.probe = Some(1800)
    /\ tc_offset = 300
    /\ HasSegments(response[1])
    /\ Len(result[1].segments) = 2
    /\ result[1].segments[1].start = 300
    /\ result[1].segments[2].end = 303

C21_FallbackWitness ==
    /\ ChunkTranscribed
    /\ audio.probe = Some(1800)
    /\ tc_offset = 1795
    /\ ~HasSegments(response[1])
    /\ result[1].segments[1].start = 1795

C14_SizeGuard ==
    \A i \in 1..Len(tc_calls) :
        tc_calls[i].size > GROQ_MAX_FILE_MB =>
            (~tc_calls[i].posted /\ IsNone(tc_calls[i].ret))

C14_Witness ==
    /\ pc = "done"
    /\ Len(tc_calls) = 1
    /\ tc_calls[1].size = 101
    /\ tc_calls[1].kind = "ok"
    /\ ~tc_calls[1].posted
    /\ IsNone(result)

----------------------------------------------------------------------------
(* Assembly: transcribe_audio *)

TranscribeAudioReturned == caller = "transcribe_audio" /\ pc = "done"

SomeChunkTranscribed == \E i \in 1..Len(tc_calls) : tc_calls[i].ok

\* C7: when the extraction of one chunk exits non-zero and another chunk has
\* been extracted, processing goes on and transcribe_audio returns, with a
\* Transcript if any chunk was transcribed.
C7_PartialFailureYieldsTranscript ==
    (caller = "transcribe_audio" /\ extract_failed /\ chunks # <<>>)
        ~> (pc = "done" /\ (SomeChunkTranscribed => ~IsNone(result)))

\* C8: when every chunk fails (none extracted, or none transcribed)
\* transcribe_audio returns None, and a Transcript it returns is never empty.
C8_TotalFailureReturnsNone ==
    TranscribeAudioReturned =>
        /\ ~SomeChunkTranscribed => IsNone(result)
        /\ ~IsNone(result) => result[1].segments # <<>>

C8_Witness ==
    /\ TranscribeAudioReturned
    /\ NeedsChunking(GetAudioSizeMb(audio))
    /\ extractor_invoked
    /\ chunks = <<>>
    /\ IsNone(result)

\* more than one window was planned: the first window ends before the duration
PlannedMoreThanOne == extractor_invoked /\ chunk_duration < duration

\* C9: the Transcript transcribe_audio returns has chunked = True exactly when
\* more than one chunk was planned, and chunked = False in the single-window
\* case.
C9_ChunkedFlag ==
    (TranscribeAudioReturned /\ ~IsNone(result)) =>
        /\ "chunked" \in DOMAIN result[1]
        /\ result[1]["chunked"] = PlannedMoreThanOne

\* the language after the calls: each successful call that reports a
\* non-empty language replaces it
RECURSIVE LastLanguage(_, _)
LastLanguage(calls, lang) ==
    IF calls = <<>> THEN lang
    ELSE LastLanguage(Tail(calls),
                      IF Head(calls).ok /\ Head(calls).ret[1].language # ""
                      THEN Head(calls).ret[1].language
                      ELSE lang)

\* C23: the language of the Transcript transcribe_audio returns is the last
\* non-empty language reported by a successfully transcribed chunk, 'en'
\* when none reported one.
C23_LastNonEmptyLanguage ==
    (TranscribeAudioReturned /\ ~IsNone(result)) =>
        result[1].language = LastLanguage(tc_calls, DEFAULT_LANGUAGE)

\* a plan of more than one chunk is being built for transcribe_audio
MultiChunkPlan == caller = "transcribe_audio" /\ Len(chunks) > 1

\* the segment lists the successful calls returned, one after the other
RECURSIVE SegmentsOf(_)
SegmentsOf(calls) ==
    IF calls = <<>> THEN <<>>
    ELSE (IF Head(calls).ok THEN Head(calls).ret[1].segments ELSE <<>>)
             \o SegmentsOf(Tail(calls))

\* the flat texts the successful calls returned, in call order
TextsOf(calls) ==
    LET oks == SelectSeq(calls, LAMBDA c : c.ok)
    IN  [i \in 1..Len(oks) |-> oks[i].ret[1].text]

\* C17: the chunks of a multi-chunk plan are transcribed one call after the
\* other in the plan's index order, each with its window's start as offset,
\* and transcribe_audio returns; the segment list of its Transcript is the
\* concatenation of the successful calls' segment lists in that order.
C17_ChunksTranscribedInPlanOrder ==
    MultiChunkPlan
        ~> /\ pc = "done"
           /\ Len(tc_calls) = Len(chunks)
           /\ \A i \in 1..Len(chunks) :
                  /\ tc_calls[i].path = chunks[i].path
                  /\ tc_calls[i].offset = chunks[i].start
           /\ ~IsNone(result) => result[1].segments = SegmentsOf(tc_calls)

\* C18: transcribe_audio returns for a multi-chunk plan, and the text of its
\* Transcript is the flat texts of the successfully transcribed chunks, in
\* chunk order, joined with one space.
C18_TextJoinsChunkTexts ==
    MultiChunkPlan
        ~> /\ pc = "done"
           /\ ~IsNone(result) => result[1].text = JoinWithSpace(TextsOf(tc_calls))

\* transcribe_audio never enters its chunk loop: with the default overlap
\* chunk_audio_file returns nothing but [] or the one window of the original
AssemblyLoopNeverEntered == loop_idx = 0 /\ all_segments = <<>>

----------------------------------------------------------------------------
(* Episodes: transcribe_episode *)

TranscribeEpisodeEnded == te \notin {"idle", "running"}

\* C15: when transcription of an episode fails (no row, no audio file, or
\* transcribe_audio returned None: in each case there is no result),
\* transcribe_episode returns False and the row is exactly the one it read at
\* the start of the call.
C15_FailureChangesNothing ==
    (TranscribeEpisodeEnded /\ IsNone(result)) =>
        (te = "False" /\ db_episode = episode)

C15_Witness ==
    /\ te = "False"
    /\ TranscribeAudioReturned
    /\ IsNone(result)
    /\ Len(tc_calls) = 1
    /\ tc_calls[1].kind = "http_error"
    /\ ~IsNone(db_episode)
    /\ db_episode[1].status = "downloaded"
    /\ ~IsNone(db_episode[1].transcript)

\* C16: transcribe_episode on an episode whose status is 'transcribed' or
\* 'processed' returns False without extracting or transcribing anything and
\* leaves the row as it was.
C16_AlreadyTranscribedSkipped ==
    (~IsNone(episode) /\ episode[1].status \in {"transcribed", "processed"}) =>
        /\ te = "False"
        /\ caller = "transcribe_episode"
        /\ ~extractor_invoked
        /\ tc_calls = <<>>
        /\ db_episode = episode

C16_Witness ==
    /\ te = "False"
    /\ ffmpeg_installed
    /\ audio.exists
    /\ ~IsNone(episode)
    /\ episode[1].status = "transcribed"
    /\ ~IsNone(episode[1].audio_file_path)
    /\ ~IsNone(db_episode[1].transcript)

C22_StoredTranscriptIsReturned ==
    te = "True" =>
        LET stored   == db_episode[1].transcript[1]
            returned == result[1]
        IN  /\ stored.segments = returned.segments
            /\ stored.text = returned.text
            /\ stored.language = returned.language
            /\ stored.provider = returned.provider
            /\ stored.chunked = Get(returned, "chunked", FALSE)

\* C28: an episode that transcribe_episode has moved from 'downloaded' to
\* 'transcribed' has a stored transcript with at least one segment.
C28_TranscribedHasSegments ==
    (~IsNone(episode) /\ episode[1].status = "downloaded"
                      /\ db_episode[1].status = "transcribed") =>
        /\ ~IsNone(db_episode[1].transcript)
        /\ db_episode[1].transcript[1].segments # <<>>

C28_Witness ==
    /\ te = "True"
    /\ episode[1].status = "downloaded"
    /\ IsNone(episode[1].transcript)
    /\ db_episode[1].status = "transcribed"
    /\ ~HasSegments(response[1])
    /\ Len(db_episode[1].transcript[1].segments) = 1

----------------------------------------------------------------------------
(* Concurrent invocations *)

\* invocation p has extracted chunks and has not yet handed them on
HoldsChunks(p) ==
    /\ runs[p].pc \in {"caf_while", "caf_extract", "caf_return"}
    /\ runs[p].chunks # <<>>
    /\ ~IsOriginalOnly(runs[p].chunks)

\* C26: two invocations on the same source file derive the same chunk file
\* names: the i-th chunk of one is at the path of the i-th chunk of the other,
\* and nothing keeps either from writing there.
C26_SameChunkPaths ==
    \A p, q \in Invocations :
        \A i \in 1..Len(runs[p].chunks) :
            i <= Len(runs[q].chunks) => runs[p].chunks[i].path = runs[q].chunks[i].path

\* one invocation has written over a chunk file that the other extracted and
\* still holds for transcription
C26_Witness ==
    \E p, q \in Invocations :
        /\ p # q
        /\ HoldsChunks(p)
        /\ \E i \in 1..Len(runs[p].chunks) :
               /\ disk[runs[p].chunks[i].path].by = q
               /\ runs[q].pc \in {"caf_while", "caf_extract"}

----------------------------------------------------------------------------
(* Episode status *)

Rank(status) ==
    IF status = "downloaded" THEN 0 ELSE IF status = "transcribed" THEN 1 ELSE 2

\* the row holds a transcript whose text is not empty
HasTranscriptText(db) ==
    /\ ~IsNone(db[1].transcript)
    /\ db[1].transcript[1].text # <<>>

\* C27: over any sequence of transcribe_episode and generate_summary calls an
\* episode's status never moves backward along downloaded, transcribed,
\* processed, and a row is processed only with a stored transcript whose text
\* is not empty.
C27_StatusOnlyAdvances ==
    [][\A id \in EpisodeIds :
          /\ Rank(podcasts'[id][1].status) >= Rank(podcasts[id][1].status)
          /\ podcasts'[id][1].status = "processed" => HasTranscriptText(podcasts'[id])
          /\ (podcasts'[id][1].status = "processed" /\ podcasts[id][1].status # "processed")
                 => HasTranscriptText(podcasts[id])]_vars

\* an episode went from downloaded through transcribed to processed
C27_Witness ==
    \E id \in EpisodeIds :
        /\ podcasts[id][1].status = "processed"
        /\ podcasts[id][1].summary = Some(LlmSummary)
        /\ HasTranscriptText(podcasts[id])
        /\ \E other \in EpisodeIds :
               /\ podcasts[other][1].status = "transcribed"
               /\ ~HasTranscriptText(podcasts[other])

----------------------------------------------------------------------------
(* The batch: process_all_episodes *)

\* the calls the batch made in a pass for an episode, by position in the log
Attempts(pass, id) ==
    {i \in 1..Len(batch.log) : batch.log[i].pass = pass /\ batch.log[i].id = id}

\* the calls of a pass that ended with ret
Ended(pass, ret) ==
    {i \in 1..Len(batch.log) : batch.log[i].pass = pass /\ batch.log[i].ret = ret}

\* the calls that failed: False or None returned, or an exception raised
Failed ==
    {i \in 1..Len(batch.log) :
        ~ \/ batch.log[i].pass = "transcribe" /\ batch.log[i].ret = "True"
          \/ batch.log[i].pass = "summarize" /\ batch.log[i].ret = "summary"}

\* C30: process_all_episodes makes all its transcription calls before its
\* summary calls; an episode that was downloaded at the start and is
\* transcribed by the call is summarized by the same call, and is processed at
\* the return when that summary succeeds; no episode is attempted twice in a
\* pass; every listed episode is attempted whatever happened to the ones
\* before it, and every failed attempt is counted in errors.
C30_PassesInOrder ==
    /\ \A i, j \in 1..Len(batch.log) :
           i < j => ~(batch.log[i].pass = "summarize" /\ batch.log[j].pass = "transcribe")
    /\ \A id \in EpisodeIds, pass \in {"transcribe", "summarize"} :
           Cardinality(Attempts(pass, id)) <= 1
    /\ batch.results.transcribed = Cardinality(Ended("transcribe", "True"))
    /\ batch.results.summarized = Cardinality(Ended("summarize", "summary"))
    /\ batch.results.errors = Cardinality(Failed)
    /\ batch.pc \in {"step2", "returned"} =>
           \A id \in EpisodeIds :
               batch.started[id] = "downloaded" => Attempts("transcribe", id) # {}
    /\ batch.pc = "returned" =>
           \A id \in EpisodeIds :
               /\ podcasts[id][1].status = "transcribed" \/ batch.started[id] = "transcribed"
                      => Attempts("summarize", id) # {}
               /\ (/\ batch.started[id] = "downloaded"
                   /\ Attempts("transcribe", id) \cap Ended("transcribe", "True") # {})
                      => /\ Attempts("summarize", id) # {}
                         /\ Attempts("summarize", id) \cap Ended("summarize", "summary") # {}
                                => podcasts[id][1].status = "processed"

\* the call returned after the first episode's transcription failed and the
\* second, downloaded at the start, was transcribed and summarized
C30_Witness ==
    /\ batch.pc = "returned"
    /\ batch.started = [id \in EpisodeIds |-> "downloaded"]
    /\ Len(batch.log) >= 3
    /\ batch.log[1] = [pass |-> "transcribe", id |-> 1, ret |-> "raised"]
    /\ batch.log[2] = [pass |-> "transcribe", id |-> 2, ret |-> "True"]
    /\ Attempts("summarize", 2) \cap Ended("summarize", "summary") # {}
    /\ podcasts[2][1].status = "processed"
    /\ batch.results.transcribed = 1
    /\ batch.results.errors >= 1

====
